---- MODULE Spec2Model ----
(***************************************************************************)
(* SHA Connect (src/app.py): the record store (JSON files <-> tables), the *)
(* translation helper, the Twilio gateway, the outbox and the page         *)
(* handlers of one Streamlit process.                                      *)
(*                                                                         *)
(* A script run (one interaction cycle) of a session is two steps: the     *)
(* page handler of the pressed button (pc: "idle" -> "persist"), then the  *)
(* unconditional persist_all() at the end of the script ("persist" ->      *)
(* "idle").                                                                *)
(***************************************************************************)
EXTENDS Integers, Sequences, FiniteSets, TLC

VARIABLES
    files,            \* path -> content of the JSON file under ./data
    session_state,    \* session -> the five tables of st.session_state
    pc,               \* session -> position in the script run
    secrets,          \* st.secrets: the [twilio] section and its keys
    environ,          \* the TWILIO_* environment variables that are set
    TwilioClient,     \* TRUE iff `from twilio.rest import Client` succeeded
    gt_translator,    \* TRUE iff googletrans was imported (GTTranslator())
    op,               \* the handler or function that ran last, with its inputs
    ret,              \* what that handler or function returned
    gw_calls,         \* safe_send_sms / safe_make_call calls of the last handler
    provider_calls,   \* client.messages.create / client.calls.create calls of it
    file_writes,      \* the paths the last handler wrote, in order
    failed_dispatches, \* session -> per outbox row: dispatches that failed so far
    accepted_sends,   \* session -> Send Now presses that passed the input check
    entry_log         \* session -> per outbox row: the accepted send that queued
                      \* it (id) and the drains it has been through (drains,
                      \* counted up to max_attempts + 1)

vars == <<files, session_state, pc, secrets, environ, TwilioClient,
          gt_translator, op, ret, gw_calls, provider_calls, file_writes,
          failed_dispatches, accepted_sends, entry_log>>

-----------------------------------------------------------------------------
(* Bounds of the model *)

MaxOutbox == 2
MaxLog == 2
MaxRows == 1
MaxFileRecs == 2
MaxSends == 1       \* accepted sends of a session, where two sessions run

-----------------------------------------------------------------------------
(* Scalar values of a table cell: a string, a number, or NaN/None *)

Str(x) == [t |-> "str", s |-> x, n |-> 0]
Num(k) == [t |-> "num", s |-> "", n |-> k]
NaN == [t |-> "nan", s |-> "", n |-> 0]

Range(f) == {f[i] : i \in DOMAIN f}

RECURSIVE SelectIdx(_, _, _)
\* the positions i (ascending, from k) of sequence q with q[i] in set S
SelectIdx(q, S, k) ==
    IF k > Len(q) THEN <<>>
    ELSE IF q[k] \in S THEN <<k>> \o SelectIdx(q, S, k + 1)
    ELSE SelectIdx(q, S, k + 1)

-----------------------------------------------------------------------------
(* pandas.DataFrame: ordered columns, index labels, rows (column -> value) *)

\* pd.DataFrame(columns=columns)
EmptyFrame(columns) == [columns |-> columns, index |-> <<>>, rows |-> <<>>]

\* pd.DataFrame()
NoFrame == EmptyFrame(<<>>)

\* df.empty
IsEmpty(df) == df.rows = <<>> \/ df.columns = <<>>

\* a dict literal {k1: v1, ...}: keys in order, and the mapping
Dict(keys, vals) == [keys |-> keys, at |-> [i \in 1..Len(keys) |-> vals[i]]]
DictRow(d) == [c \in Range(d.keys) |->
                 d.at[CHOOSE i \in 1..Len(d.keys) : d.keys[i] = c]]

\* a row widened to the column set cs: absent cells are NaN
Widen(row, cs) == [c \in cs |-> IF c \in DOMAIN row THEN row[c] ELSE NaN]

\* mutant of ConcatRow: the new row is lost
ConcatRowLost(df, d) == df

\* mutant of ConcatRow: the new row is put first
ConcatRowFirst(df, d) ==
    LET extra == SelectSeq(d.keys, LAMBDA k : k \notin Range(df.columns))
        cols == df.columns \o extra
        cs == Range(cols)
        n == Len(df.rows) + 1
    IN [columns |-> cols,
        index |-> [i \in 1..n |-> i - 1],
        rows |-> [i \in 1..n |-> IF i > 1 THEN Widen(df.rows[i - 1], cs)
                                   ELSE Widen(DictRow(d), cs)]]

\* pd.concat([df, pd.DataFrame([d])], ignore_index=True)
ConcatRow(df, d) ==
    LET extra == SelectSeq(d.keys, LAMBDA k : k \notin Range(df.columns))
        cols == df.columns \o extra
        cs == Range(cols)
        n == Len(df.rows) + 1
    IN [columns |-> cols,
        index |-> [i \in 1..n |-> i - 1],
        rows |-> [i \in 1..n |-> IF i < n THEN Widen(df.rows[i], cs)
                                   ELSE Widen(DictRow(d), cs)]]

\* position of index label idx in df (labels are unique), 0 when absent
Pos(df, idx) ==
    IF \E i \in 1..Len(df.index) : df.index[i] = idx
    THEN CHOOSE i \in 1..Len(df.index) : df.index[i] = idx
    ELSE 0

\* mutant of SetAt: idx taken as a position (df.iat), not as a label
SetAtPos(df, idx, col, v) ==
    IF idx + 1 \in 1..Len(df.rows) THEN [df EXCEPT !.rows[idx + 1][col] = v] ELSE df

\* df.at[idx, col] = v   (idx is a label of df)
SetAt(df, idx, col, v) ==
    [df EXCEPT !.rows[Pos(df, idx)][col] = v]

\* mutant of Drop: idx taken as a position, not as a label
DropPos(df, idx) ==
    LET keep == SelectIdx([i \in 1..Len(df.index) |-> i], (1..Len(df.index)) \ {idx + 1}, 1)
    IN [df EXCEPT !.index = [i \in 1..Len(keep) |-> df.index[keep[i]]],
                  !.rows = [i \in 1..Len(keep) |-> df.rows[keep[i]]]]

\* df.drop(idx)
Drop(df, idx) ==
    LET keep == SelectIdx(df.index, Range(df.index) \ {idx}, 1)
    IN [df EXCEPT !.index = [i \in 1..Len(keep) |-> df.index[keep[i]]],
                  !.rows = [i \in 1..Len(keep) |-> df.rows[keep[i]]]]

-----------------------------------------------------------------------------
(* Record store: save_df_to_file / load_df_from_file *)

DATA_FILES == {"partners.json", "message_logs.json", "feedback.json",
               "reminders.json", "outbox.json"}
PARTNERS_FILE == "partners.json"
MESSAGES_FILE == "message_logs.json"
FEEDBACK_FILE == "feedback.json"
REMINDERS_FILE == "reminders.json"
OUTBOX_FILE == "outbox.json"

PartnerCols == <<"Name", "Role", "Language", "Contact", "Campaign Assigned">>
MessageCols == <<"Recipient", "Message", "Language", "Date Sent", "Type", "Status">>
FeedbackCols == <<"Name", "Message", "Language", "Date Submitted">>
ReminderCols == <<"Task", "Due Date", "Assigned To", "Status">>
OutboxCols == <<"Recipient", "Message", "Language", "Date Created", "Type", "Attempts">>

\* A file: absent, or text that is a JSON array of flat records (recs), or text
\* that is not. parse = "both": pd.read_json and json.load accept the text;
\* "raw": only json.load does; "none": neither does.
AbsentFile == [exists |-> FALSE, parse |-> "none", recs |-> <<>>]
GarbageFile == [exists |-> TRUE, parse |-> "none", recs |-> <<>>]
JsonFile(recs) == [exists |-> TRUE, parse |-> "both", recs |-> recs]
RawOnlyFile(recs) == [exists |-> TRUE, parse |-> "raw", recs |-> recs]

\* df.to_json(path, orient="records"): one object per row, keyed by the
\* columns; the index labels are not written
save_df_to_file(df) == JsonFile(df.rows)

\* float(s) on the strings of the model: the strings that are numerals
NumericStrings == {"0712", "712", "+254712"}
FloatOf(x) == CASE x = "0712" -> 712
                [] x = "712" -> 712
                [] x = "+254712" -> 254712

\* pandas' dtype inference of read_json (dtype=True by default) on one column:
\* an object column whose every cell converts to float becomes numeric
Convertible(v) == v.t = "num" \/ v.t = "nan" \/ (v.t = "str" /\ v.s \in NumericStrings)
ToNumber(v) == IF v.t = "str" THEN Num(FloatOf(v.s)) ELSE v
InferColumn(rows, c) ==
    IF rows # <<>> /\ \A i \in 1..Len(rows) : Convertible(rows[i][c])
    THEN [i \in 1..Len(rows) |-> ToNumber(rows[i][c])]
    ELSE [i \in 1..Len(rows) |-> rows[i][c]]

\* the keys of the records of a file: the columns of the parsed frame
KeysOf(recs) == UNION {DOMAIN recs[i] : i \in 1..Len(recs)}

\* pd.DataFrame(records): the union of the keys, absent cells NaN
FrameOfRecords(recs) ==
    [i \in 1..Len(recs) |-> Widen(recs[i], KeysOf(recs))]

\* pd.read_json(path, orient="records"), when it does not raise
ReadJson(recs) ==
    LET wide == FrameOfRecords(recs)
        col == [c \in KeysOf(recs) |-> InferColumn(wide, c)]
    IN [i \in 1..Len(recs) |-> [c \in KeysOf(recs) |-> col[c][i]]]

\* for c in columns: if c not in df.columns: df[c] = ""; return df[columns]
Backfill(rows, columns) ==
    [columns |-> columns,
     index |-> [i \in 1..Len(rows) |-> i - 1],
     rows |-> [i \in 1..Len(rows) |->
                 [c \in Range(columns) |->
                     IF c \in DOMAIN rows[i] THEN rows[i][c] ELSE Str("")]]]

load_df_from_file(file, columns) ==
    IF ~file.exists THEN EmptyFrame(columns)
    ELSE IF file.parse = "both" THEN Backfill(ReadJson(file.recs), columns)
    ELSE IF file.parse = "raw" THEN Backfill(FrameOfRecords(file.recs), columns)
    ELSE NoFrame

-----------------------------------------------------------------------------
(* Translation: custom_translations and safe_translate *)

LANGUAGE_OPTIONS == {"English", "Swahili", "Luo", "Luhya"}

CustomKeys == {"What is SHA?", "How can I register for SHA?",
               "Which services are covered?", "Thank you for your feedback!"}

custom_translations(lang, text) ==
    IF lang = "Luo" THEN
        CASE text = "What is SHA?" ->
               "SHA en Social Health Authority, ma orit gi dhok yi mondo giko gi bedo mag dhok."
          [] text = "How can I register for SHA?" ->
               "Inyalo registr kendo e health center maduong' gi e SHA portal."
          [] text = "Which services are covered?" ->
               "SHA en giko mag preventive care, maternal care, kod treatments ma nyaka."
          [] text = "Thank you for your feedback!" -> "Awuoyo gi nyalo walo!"
    ELSE
        CASE text = "What is SHA?" ->
               "SHA ni Social Health Authority, ebuya amagara netaweire."
          [] text = "How can I register for SHA?" ->
               "Olwikhilire kuhealth center oba e SHA portal."
          [] text = "Which services are covered?" ->
               "SHA ibuyire preventive care, maternal care, ne essential treatments."
          [] text = "Thank you for your feedback!" -> "Webale muno okhu"

\* what gt_translator.translate(text, dest="sw") does when it is called:
\* it raises, or it returns an object whose .text is some string
GtRaises == [raises |-> TRUE, text |-> ""]
GtReturns(x) == [raises |-> FALSE, text |-> x]

\* mutant of safe_translate: the dictionary lookup has no default
\* (.get(text) for .get(text, text)), so a phrase not in it comes back empty
safe_translate_nodefault(text, lang, gt, ext) ==
    IF text = "" THEN text
    ELSE IF lang \in {"Luo", "Luhya"} THEN
        IF text \in CustomKeys THEN custom_translations(lang, text) ELSE ""
    ELSE IF lang = "English" THEN text
    ELSE IF lang = "Swahili" THEN
        IF gt THEN (IF ext.raises THEN text ELSE ext.text)
        ELSE text
    ELSE text

\* safe_translate(text, lang), with the translator present or not (gt) and
\* the outcome of the external call (ext) should it be made
safe_translate(text, lang, gt, ext) ==
    IF text = "" THEN text
    ELSE IF lang \in {"Luo", "Luhya"} THEN
        IF text \in CustomKeys THEN custom_translations(lang, text) ELSE text
    ELSE IF lang = "English" THEN text
    ELSE IF lang = "Swahili" THEN
        IF gt THEN (IF ext.raises THEN text ELSE ext.text)
        ELSE text
    ELSE text

-----------------------------------------------------------------------------
(* Messaging gateway: twilio_configured, get_twilio_client, safe_send_sms, *)
(* safe_make_call                                                          *)

SecretKeys == {"account_sid", "auth_token", "from_number"}
EnvKeys == {"TWILIO_ACCOUNT_SID", "TWILIO_AUTH_TOKEN", "TWILIO_PHONE_NUMBER"}

\* st.secrets without a [twilio] section
NoSecrets == [twilio |-> FALSE, keys |-> {}]

NOT_CONFIGURED == "Twilio not configured or library missing."

twilio_configured ==
    LET has_secrets == secrets.twilio /\ SecretKeys \subseteq secrets.keys
    IN IF has_secrets THEN TRUE ELSE EnvKeys \subseteq environ

\* mutant of get_twilio_client: twilio_configured() is not consulted
get_twilio_client_unchecked ==
    IF secrets.twilio /\ ~({"account_sid", "auth_token"} \subseteq secrets.keys)
    THEN "None"
    ELSE IF ~TwilioClient THEN "None"
    ELSE "client"

\* "None", or "client" for a TwilioClient(sid, token)
get_twilio_client ==
    IF ~twilio_configured THEN "None"
    ELSE IF secrets.twilio /\ ~({"account_sid", "auth_token"} \subseteq secrets.keys)
         THEN "None"       \* KeyError in the try block
    ELSE IF ~TwilioClient THEN "None"
    ELSE "client"

\* the body shared by safe_send_sms and safe_make_call: `create` is the
\* provider function, out what the provider does if it is called ("ok": it
\* returns an object with a sid, "raise": it throws)
SafeCall(create, to_number, body, out) ==
    IF get_twilio_client = "None"
    THEN [ok |-> FALSE, info |-> NOT_CONFIGURED, provider |-> <<>>]
    ELSE IF secrets.twilio /\ "from_number" \notin secrets.keys
    THEN [ok |-> FALSE, info |-> "'from_number'", provider |-> <<>>]
    ELSE LET call == [fn |-> create, to |-> to_number, body |-> body]
         IN IF out = "ok"
            THEN [ok |-> TRUE, info |-> "SID", provider |-> <<call>>]
            ELSE [ok |-> FALSE, info |-> "provider error", provider |-> <<call>>]

safe_send_sms(to_number, body, out) ==
    SafeCall("messages.create", to_number, body, out)

safe_make_call(to_number, text_to_say, out) ==
    SafeCall("calls.create", to_number, text_to_say, out)

ProviderOutcomes == {"ok", "raise"}

-----------------------------------------------------------------------------
(* Outbox management: add_to_outbox, process_outbox, persist_all *)

max_attempts == 3

\* datetime.datetime.now().strftime(...): no code branches on a timestamp
Timestamp == Str("now")

\* the loads of st.session_state at a session's first script run
LoadSession(fs) ==
    [partners_df |-> load_df_from_file(fs[PARTNERS_FILE], PartnerCols),
     message_logs |-> load_df_from_file(fs[MESSAGES_FILE], MessageCols),
     feedback_df |-> load_df_from_file(fs[FEEDBACK_FILE], FeedbackCols),
     reminders_df |-> load_df_from_file(fs[REMINDERS_FILE], ReminderCols),
     outbox_df |-> load_df_from_file(fs[OUTBOX_FILE], OutboxCols)]

\* the row a successful send appends to message_logs
SentRow(recipient, message, language, msg_type) ==
    Dict(MessageCols, <<recipient, message, language, Timestamp, msg_type, Str("Sent")>>)

\* mutant of add_to_outbox: the outbox is not saved
add_to_outbox_unsaved(st, fs, recipient, message, language, msg_type) ==
    LET row == Dict(OutboxCols,
                    <<recipient, message, language, Timestamp, msg_type, Num(0)>>)
    IN [st |-> [st EXCEPT !.outbox_df = ConcatRow(st.outbox_df, row)],
        fs |-> fs,
        writes |-> <<>>]

\* add_to_outbox on the tables st and the files fs: the new tables and files
add_to_outbox(st, fs, recipient, message, language, msg_type) ==
    LET row == Dict(OutboxCols,
                    <<recipient, message, language, Timestamp, msg_type, Num(0)>>)
        ob == ConcatRow(st.outbox_df, row)
    IN [st |-> [st EXCEPT !.outbox_df = ob],
        fs |-> [fs EXCEPT ![OUTBOX_FILE] = save_df_to_file(ob)],
        writes |-> <<OUTBOX_FILE>>]

\* mutant of RowGet: the column is never found
RowGetDefault(row, col, default) == default

\* row.get(col, default)
RowGet(row, col, default) == IF col \in DOMAIN row THEN row[col] ELSE default

\* int(x): defined on numbers and numeral strings, raises otherwise
IntOk(v) == v.t = "num" \/ (v.t = "str" /\ v.s \in NumericStrings)
IntOf(v) == IF v.t = "num" THEN v.n ELSE FloatOf(v.s)

\* mutant of Exhausted: the bound is off by one
ExhaustedLate(attempts) == attempts > max_attempts

\* if attempts >= max_attempts: ... continue
Exhausted(attempts) == attempts >= max_attempts

\* one iteration of the loop of process_outbox, for row k of the copy
ProcessRow(acc, copy, k, out) ==
    LET idx == copy.index[k]
        row == copy.rows[k]
        a == RowGet(row, "Attempts", Num(0))
    IN IF ~IntOk(a) THEN [acc EXCEPT !.raised = TRUE]
       ELSE IF Exhausted(IntOf(a))
       THEN [acc EXCEPT !.results =
                Append(@, [idx |-> idx, ok |-> FALSE, info |-> "max attempts reached"])]
       ELSE
         LET recipient == row["Recipient"]
             message == row["Message"]
             msg_type == RowGet(row, "Type", Str("sms"))
             language == RowGet(row, "Language", Str("English"))
             sms == msg_type = Str("sms")
             r == IF sms THEN safe_send_sms(recipient, message, out)
                  ELSE safe_make_call(recipient, message, out)
             gw == [fn |-> IF sms THEN "safe_send_sms" ELSE "safe_make_call",
                    idx |-> idx, to |-> recipient, body |-> message]
             ob1 == SetAt(acc.st.outbox_df, idx, "Attempts", Num(IntOf(a) + 1))
             res == [idx |-> idx, ok |-> r.ok, info |-> r.info]
         IN IF r.ok
            THEN [acc EXCEPT
                    !.st.message_logs =
                        ConcatRow(@, SentRow(recipient, message, language, msg_type)),
                    !.st.outbox_df = Drop(ob1, idx),
                    !.results = Append(@, res),
                    !.gw = Append(@, gw),
                    !.provider = @ \o r.provider]
            ELSE [acc EXCEPT
                    !.st.outbox_df = ob1,
                    !.results = Append(@, res),
                    !.gw = Append(@, gw),
                    !.provider = @ \o r.provider]

\* mutant of ProcessLoop: the pass stops after the first row
ProcessLoopFirst(acc, copy, k, outs) ==
    IF k > 1 \/ k > Len(copy.rows) \/ acc.raised THEN acc
    ELSE ProcessRow(acc, copy, k, outs[k])

RECURSIVE ProcessLoop(_, _, _, _)
\* for idx, row in st.session_state.outbox_df.copy().iterrows(): ...
ProcessLoop(acc, copy, k, outs) ==
    IF k > Len(copy.rows) \/ acc.raised THEN acc
    ELSE ProcessLoop(ProcessRow(acc, copy, k, outs[k]), copy, k + 1, outs)

\* process_outbox() on the tables st and the files fs; outs[k] is what the
\* provider does for row k if it is called
process_outbox(st, fs, outs) ==
    LET start == [st |-> st, fs |-> fs, results |-> <<>>, gw |-> <<>>,
                  provider |-> <<>>, raised |-> FALSE, writes |-> <<>>]
    IN IF IsEmpty(st.outbox_df) THEN start
       ELSE LET r == ProcessLoop(start, st.outbox_df, 1, outs)
            IN IF r.raised THEN r
               ELSE [r EXCEPT
                        !.fs = [fs EXCEPT
                            ![OUTBOX_FILE] = save_df_to_file(r.st.outbox_df),
                            ![MESSAGES_FILE] = save_df_to_file(r.st.message_logs)],
                        !.writes = <<OUTBOX_FILE, MESSAGES_FILE>>]

PersistOrder ==
    <<PARTNERS_FILE, MESSAGES_FILE, FEEDBACK_FILE, REMINDERS_FILE, OUTBOX_FILE>>

persist_all(st) ==
    [f \in DATA_FILES |->
        CASE f = PARTNERS_FILE -> save_df_to_file(st.partners_df)
          [] f = MESSAGES_FILE -> save_df_to_file(st.message_logs)
          [] f = FEEDBACK_FILE -> save_df_to_file(st.feedback_df)
          [] f = REMINDERS_FILE -> save_df_to_file(st.reminders_df)
          [] f = OUTBOX_FILE -> save_df_to_file(st.outbox_df)]

-----------------------------------------------------------------------------
(* The pages: one action per button handler, then persist_all()           *)

\* what the widgets can hold
Recipients == {"", "+254712"}
MsgTexts == {"What is SHA?"}
MsgTypes == {"sms", "voice"}
MsgLangs == {"Luo"}
PartnerNames == {"", "Asha"}
FeedbackNames == {"", "Otieno"}
Tasks == {"", "visit"}

Sessions == DOMAIN session_state

NoOp == [fn |-> "none", s |-> 0, arg |-> <<>>]
NoRet == [kind |-> "none"]

\* the handler fn of session s has run: the script goes on to persist_all()
Ran(s, fn, arg, r, gw, prov, writes) ==
    /\ pc' = [pc EXCEPT ![s] = "persist"]
    /\ op' = [fn |-> fn, s |-> s, arg |-> arg]
    /\ ret' = r
    /\ gw_calls' = gw
    /\ provider_calls' = prov
    /\ file_writes' = writes
    /\ UNCHANGED <<secrets, environ, TwilioClient, gt_translator>>

\* a script run with no button pressed (navigation, a widget edited)
Rerun(s) ==
    /\ pc[s] = "idle"
    /\ Ran(s, "rerun", <<>>, NoRet, <<>>, <<>>, <<>>)
    /\ UNCHANGED <<files, session_state, failed_dispatches, accepted_sends,
                            entry_log>>

\* Multilingual Messages: "Send Now"
SendNow(s, recipient, msg_text, msg_type, msg_lang, out) ==
    /\ pc[s] = "idle"
    /\ LET st == session_state[s]
           arg == <<recipient, msg_text, msg_type, msg_lang>>
       IN IF recipient = "" \/ msg_text = ""
          THEN /\ Ran(s, "send_now", arg, [kind |-> "warning"], <<>>, <<>>, <<>>)
               /\ UNCHANGED <<files, session_state, failed_dispatches, accepted_sends,
                            entry_log>>
          ELSE
            LET translated == Str(safe_translate(msg_text, msg_lang, gt_translator, GtRaises))
                sms == msg_type = "sms"
                r == IF twilio_configured /\ TwilioClient
                     THEN IF sms THEN safe_send_sms(Str(recipient), translated, out)
                          ELSE safe_make_call(Str(recipient), translated, out)
                     ELSE [ok |-> FALSE, info |-> "Twilio not configured", provider |-> <<>>]
                gw == IF twilio_configured /\ TwilioClient
                      THEN <<[fn |-> IF sms THEN "safe_send_sms" ELSE "safe_make_call",
                              idx |-> -1, to |-> Str(recipient), body |-> translated]>>
                      ELSE <<>>
                res == [kind |-> "send", ok |-> r.ok, info |-> r.info]
            IN IF r.ok
               THEN LET logs == ConcatRow(st.message_logs,
                                   SentRow(Str(recipient), translated, Str(msg_lang),
                                           Str(msg_type)))
                    IN /\ Len(st.message_logs.rows) < MaxLog
                       /\ session_state' = [session_state EXCEPT ![s].message_logs = logs]
                       /\ files' = [files EXCEPT ![MESSAGES_FILE] = save_df_to_file(logs)]
                       /\ UNCHANGED <<failed_dispatches, entry_log>>
                       /\ accepted_sends' = [accepted_sends EXCEPT ![s] = @ + 1]
                       /\ Ran(s, "send_now", arg, res, gw, r.provider, <<MESSAGES_FILE>>)
               ELSE LET q == add_to_outbox(st, files, Str(recipient), translated,
                                           Str(msg_lang), Str(msg_type))
                    IN /\ Len(st.outbox_df.rows) < MaxOutbox
                       /\ session_state' = [session_state EXCEPT ![s] = q.st]
                       /\ files' = q.fs
                       /\ failed_dispatches' =
                              [failed_dispatches EXCEPT ![s] = Append(@, 0)]
                       /\ entry_log' = [entry_log EXCEPT ![s] =
                              Append(@, [id |-> accepted_sends[s] + 1, drains |-> 0])]
                       /\ accepted_sends' = [accepted_sends EXCEPT ![s] = @ + 1]
                       /\ Ran(s, "send_now", arg, res, gw, r.provider, q.writes)

\* Outbox: "Process Outbox (attempt send)"
ProcessOutbox(s, outs) ==
    /\ pc[s] = "idle"
    /\ LET st == session_state[s]
           r == process_outbox(st, files, outs)
           ob == r.st.outbox_df
           failed(idx) == IF \E i \in 1..Len(r.gw) : r.gw[i].idx = idx THEN 1 ELSE 0
       IN /\ Len(r.st.message_logs.rows) <= MaxLog
          /\ session_state' = [session_state EXCEPT ![s] = r.st]
          /\ files' = r.fs
          /\ failed_dispatches' = [failed_dispatches EXCEPT ![s] =
                 [i \in 1..Len(ob.rows) |->
                     failed_dispatches[s][Pos(st.outbox_df, ob.index[i])]
                       + failed(ob.index[i])]]
          /\ entry_log' = [entry_log EXCEPT ![s] =
                 [i \in 1..Len(ob.rows) |->
                     LET e == entry_log[s][Pos(st.outbox_df, ob.index[i])]
                     IN [e EXCEPT !.drains = IF @ > max_attempts THEN @ ELSE @ + 1]]]
          /\ UNCHANGED accepted_sends
          /\ Ran(s, "process_outbox", <<>>,
                 [kind |-> IF r.raised THEN "error" ELSE "results", results |-> r.results],
                 r.gw, r.provider, r.writes)

\* Outreach Partners: "Add Partner"
AddPartner(s, name) ==
    /\ pc[s] = "idle"
    /\ LET st == session_state[s]
           df == ConcatRow(st.partners_df,
                     Dict(PartnerCols, <<Str(name), Str("Volunteer"), Str("Luo, English"),
                                         Str(""), Str("")>>))
       IN IF name = ""
          THEN /\ UNCHANGED <<files, session_state>>
               /\ Ran(s, "add_partner", <<name>>, [kind |-> "warning"], <<>>, <<>>, <<>>)
          ELSE /\ Len(st.partners_df.rows) < MaxRows
               /\ session_state' = [session_state EXCEPT ![s].partners_df = df]
               /\ files' = [files EXCEPT ![PARTNERS_FILE] = save_df_to_file(df)]
               /\ Ran(s, "add_partner", <<name>>, NoRet, <<>>, <<>>, <<PARTNERS_FILE>>)
    /\ UNCHANGED <<failed_dispatches, accepted_sends, entry_log>>

\* Community Feedback: "Submit Feedback"
SubmitFeedback(s, fname, flang) ==
    /\ pc[s] = "idle"
    /\ LET st == session_state[s]
           df == ConcatRow(st.feedback_df,
                     Dict(FeedbackCols, <<Str(fname), Str("asante"), Str(flang), Timestamp>>))
           conf == safe_translate("Thank you for your feedback!", flang,
                                  gt_translator, GtRaises)
       IN IF fname = ""
          THEN /\ UNCHANGED <<files, session_state>>
               /\ Ran(s, "submit_feedback", <<fname, flang>>, [kind |-> "warning"],
                      <<>>, <<>>, <<>>)
          ELSE /\ Len(st.feedback_df.rows) < MaxRows
               /\ session_state' = [session_state EXCEPT ![s].feedback_df = df]
               /\ files' = [files EXCEPT ![FEEDBACK_FILE] = save_df_to_file(df)]
               /\ Ran(s, "submit_feedback", <<fname, flang>>,
                      [kind |-> "success", text |-> conf], <<>>, <<>>, <<FEEDBACK_FILE>>)
    /\ UNCHANGED <<failed_dispatches, accepted_sends, entry_log>>

\* Notifications & Reminders: "Add Reminder"
AddReminder(s, task) ==
    /\ pc[s] = "idle"
    /\ LET st == session_state[s]
           df == ConcatRow(st.reminders_df,
                     Dict(ReminderCols, <<Str(task), Str("2024-01-01"), Str("nurse"),
                                          Str("Pending")>>))
       IN IF task = ""
          THEN /\ UNCHANGED <<files, session_state>>
               /\ Ran(s, "add_reminder", <<task>>, [kind |-> "warning"], <<>>, <<>>, <<>>)
          ELSE /\ Len(st.reminders_df.rows) < MaxRows
               /\ session_state' = [session_state EXCEPT ![s].reminders_df = df]
               /\ files' = [files EXCEPT ![REMINDERS_FILE] = save_df_to_file(df)]
               /\ Ran(s, "add_reminder", <<task>>, NoRet, <<>>, <<>>, <<REMINDERS_FILE>>)
    /\ UNCHANGED <<failed_dispatches, accepted_sends, entry_log>>

\* reminders_df[reminders_df["Status"] == "Pending"]["Task"].tolist()
pending_tasks(df) ==
    {df.rows[i]["Task"] : i \in {j \in 1..Len(df.rows) : df.rows[j]["Status"] = Str("Pending")}}

\* mutant of Complete: every row of the task has its status flipped
CompleteFlip(df, selected_task) ==
    [df EXCEPT !.rows = [i \in 1..Len(df.rows) |->
        IF df.rows[i]["Task"] = selected_task
        THEN [df.rows[i] EXCEPT !["Status"] =
                 IF @ = Str("Pending") THEN Str("Done") ELSE Str("Pending")]
        ELSE df.rows[i]]]

\* reminders_df.loc[reminders_df["Task"] == selected_task, "Status"] = "Completed"
Complete(df, selected_task) ==
    [df EXCEPT !.rows = [i \in 1..Len(df.rows) |->
        IF df.rows[i]["Task"] = selected_task
        THEN [df.rows[i] EXCEPT !["Status"] = Str("Completed")]
        ELSE df.rows[i]]]

\* Notifications & Reminders: "Mark Completed"
MarkCompleted(s, selected_task) ==
    /\ pc[s] = "idle"
    /\ LET st == session_state[s]
           df == Complete(st.reminders_df, selected_task)
       IN /\ ~IsEmpty(st.reminders_df)
          /\ selected_task \in pending_tasks(st.reminders_df)
          /\ session_state' = [session_state EXCEPT ![s].reminders_df = df]
          /\ files' = [files EXCEPT ![REMINDERS_FILE] = save_df_to_file(df)]
    /\ Ran(s, "mark_completed", <<selected_task>>, NoRet, <<>>, <<>>, <<REMINDERS_FILE>>)
    /\ UNCHANGED <<failed_dispatches, accepted_sends, entry_log>>

\* Settings: "Save all data to disk now"
SaveAll(s) ==
    /\ pc[s] = "idle"
    /\ files' = persist_all(session_state[s])
    /\ Ran(s, "save_all", <<>>, NoRet, <<>>, <<>>, PersistOrder)
    /\ UNCHANGED <<session_state, failed_dispatches, accepted_sends, entry_log>>

\* the last line of the script: persist_all(); the run is over
PersistAll(s) ==
    /\ pc[s] = "persist"
    /\ files' = persist_all(session_state[s])
    /\ pc' = [pc EXCEPT ![s] = "idle"]
    /\ op' = [fn |-> "persist_all", s |-> s, arg |-> <<>>]
    /\ ret' = NoRet
    /\ gw_calls' = <<>>
    /\ provider_calls' = <<>>
    /\ file_writes' = PersistOrder
    /\ UNCHANGED <<session_state, failed_dispatches, accepted_sends, entry_log,
                   secrets, environ, TwilioClient, gt_translator>>

-----------------------------------------------------------------------------
(* The application: one session of a process started on an empty ./data.  *)
(* Init is the session's first script run (no button can have been        *)
(* pressed yet) after its loads, before its persist_all().                *)

FullSecrets == [twilio |-> TRUE, keys |-> SecretKeys]

\* the deployments of the application model: no credentials, or credentials
\* in st.secrets with the twilio library installed
AppConfigs == {[secrets |-> NoSecrets, environ |-> {}, lib |-> TRUE],
               [secrets |-> FullSecrets, environ |-> {}, lib |-> TRUE]}

Init ==
    /\ files = [f \in DATA_FILES |-> AbsentFile]
    /\ \E c \in AppConfigs :
          /\ secrets = c.secrets
          /\ environ = c.environ
          /\ TwilioClient = c.lib
    /\ gt_translator = FALSE
    /\ session_state = [s \in {1} |-> LoadSession(files)]
    /\ pc = [s \in {1} |-> "persist"]
    /\ op = [fn |-> "rerun", s |-> 1, arg |-> <<>>]
    /\ ret = NoRet
    /\ gw_calls = <<>>
    /\ provider_calls = <<>>
    /\ file_writes = <<>>
    /\ failed_dispatches = [s \in {1} |-> <<>>]
    /\ accepted_sends = [s \in {1} |-> 0]
    /\ entry_log = [s \in {1} |-> <<>>]

Next ==
    \/ \E s \in Sessions : Rerun(s)
    \/ \E s \in Sessions, recipient \in Recipients, msg_text \in MsgTexts,
          msg_type \in MsgTypes, msg_lang \in MsgLangs, out \in ProviderOutcomes :
          SendNow(s, recipient, msg_text, msg_type, msg_lang, out)
    \/ \E s \in Sessions :
          \E outs \in [1..Len(session_state[s].outbox_df.rows) -> ProviderOutcomes] :
             ProcessOutbox(s, outs)
    \/ \E s \in Sessions, name \in PartnerNames : AddPartner(s, name)
    \/ \E s \in Sessions, fname \in FeedbackNames, flang \in MsgLangs :
          SubmitFeedback(s, fname, flang)
    \/ \E s \in Sessions, task \in Tasks : AddReminder(s, task)
    \/ \E s \in Sessions :
          \E task \in pending_tasks(session_state[s].reminders_df) : MarkCompleted(s, task)
    \/ \E s \in Sessions : SaveAll(s)
    \/ \E s \in Sessions : PersistAll(s)

Spec == Init /\ [][Next]_vars

-----------------------------------------------------------------------------
(* The outbox under repeated drains: the steps that enqueue and drain, of  *)
(* a user who presses "Process Outbox" again and again. Every script run   *)
(* reaches its last line.                                                  *)

DrainSessions == {1}

Drain(s) ==
    \E outs \in [1..Len(session_state[s].outbox_df.rows) -> ProviderOutcomes] :
        ProcessOutbox(s, outs)

NextDrain ==
    \/ \E s \in Sessions : Rerun(s)
    \/ \E s \in Sessions, recipient \in Recipients, msg_text \in MsgTexts,
          msg_type \in MsgTypes, msg_lang \in MsgLangs, out \in ProviderOutcomes :
          SendNow(s, recipient, msg_text, msg_type, msg_lang, out)
    \/ \E s \in Sessions : Drain(s)
    \/ \E s \in Sessions : PersistAll(s)

\* the user presses "Process Outbox": the script run of s enters the handler
PressProcessOutbox(s) ==
    /\ pc[s] = "idle"
    /\ pc' = [pc EXCEPT ![s] = "persist"]
    /\ op' = [fn |-> "process_outbox", s |-> s, arg |-> <<>>]

\* a step of NextDrain is a PressProcessOutbox(s) step iff it is a Drain(s) step
SpecDrain ==
    /\ Init
    /\ [][NextDrain]_vars
    /\ \A s \in DrainSessions : SF_<<pc, op>>(PressProcessOutbox(s))
    /\ \A s \in DrainSessions : WF_vars(PersistAll(s))

-----------------------------------------------------------------------------
(* Two browser sessions served by one process: each has its own            *)
(* st.session_state, loaded from the files at its first script run; the    *)
(* files under ./data are shared. Script runs interleave cycle by cycle.   *)

ProcessSessions == {1, 2}

\* st.session_state of a session that has not run the script yet: no key
NotLoaded ==
    [partners_df |-> NoFrame, message_logs |-> NoFrame, feedback_df |-> NoFrame,
     reminders_df |-> NoFrame, outbox_df |-> NoFrame]

\* the first script run of session s: the five loads; no button is pressed
Start(s) ==
    /\ pc[s] = "new"
    /\ LET st == LoadSession(files)
           n == Len(st.outbox_df.rows)
       IN /\ session_state' = [session_state EXCEPT ![s] = st]
          /\ failed_dispatches' = [failed_dispatches EXCEPT ![s] = [i \in 1..n |-> 0]]
          /\ entry_log' = [entry_log EXCEPT ![s] = [i \in 1..n |-> [id |-> 0, drains |-> 0]]]
    /\ Ran(s, "rerun", <<>>, NoRet, <<>>, <<>>, <<>>)
    /\ UNCHANGED <<files, accepted_sends>>

InitSessions ==
    /\ files = [f \in DATA_FILES |-> AbsentFile]
    /\ \E c \in AppConfigs :
          /\ secrets = c.secrets
          /\ environ = c.environ
          /\ TwilioClient = c.lib
    /\ gt_translator = FALSE
    /\ session_state = [s \in ProcessSessions |-> NotLoaded]
    /\ pc = [s \in ProcessSessions |-> "new"]
    /\ op = NoOp
    /\ ret = NoRet
    /\ gw_calls = <<>>
    /\ provider_calls = <<>>
    /\ file_writes = <<>>
    /\ failed_dispatches = [s \in ProcessSessions |-> <<>>]
    /\ accepted_sends = [s \in ProcessSessions |-> 0]
    /\ entry_log = [s \in ProcessSessions |-> <<>>]

\* no script run of another session is under way: the runs of the sessions
\* are taken one at a time, whole cycle by whole cycle
Quiet(s) == \A t \in Sessions \ {s} : pc[t] # "persist"

NextSessions ==
    \/ \E s \in Sessions : Quiet(s) /\ Start(s)
    \/ \E s \in Sessions : Quiet(s) /\ Rerun(s)
    \/ \E s \in Sessions, msg_text \in MsgTexts, msg_lang \in MsgLangs,
          out \in ProviderOutcomes :
          /\ Quiet(s)
          /\ accepted_sends[s] < MaxSends
          /\ SendNow(s, "+254712", msg_text, "sms", msg_lang, out)
    \/ \E s \in Sessions : Quiet(s) /\ Drain(s)
    \/ \E s \in Sessions : PersistAll(s)

SpecSessions ==
    /\ InitSessions
    /\ [][NextSessions]_vars
    /\ \A s \in ProcessSessions : WF_vars(PersistAll(s))

-----------------------------------------------------------------------------
(* The gateway alone: safe_send_sms / safe_make_call under every          *)
(* configuration of st.secrets, the environment and the twilio import     *)

NoSessions == <<>>

\* the variables of the sessions, for the specifications with no session
Sessionless ==
    /\ session_state = NoSessions
    /\ pc = NoSessions
    /\ failed_dispatches = NoSessions
    /\ accepted_sends = NoSessions
    /\ entry_log = NoSessions

SecretsChoices ==
    {NoSecrets} \cup {[twilio |-> TRUE, keys |-> K] : K \in SUBSET SecretKeys}

InitGateway ==
    /\ files = [f \in DATA_FILES |-> AbsentFile]
    /\ secrets \in SecretsChoices
    /\ environ \in SUBSET EnvKeys
    /\ TwilioClient \in BOOLEAN
    /\ gt_translator = FALSE
    /\ Sessionless
    /\ op = NoOp
    /\ ret = NoRet
    /\ gw_calls = <<>>
    /\ provider_calls = <<>>
    /\ file_writes = <<>>

\* a call of a gateway function: its result and the provider calls it made
Called(fn, arg, r) ==
    /\ op' = [fn |-> fn, s |-> 0, arg |-> arg]
    /\ ret' = [kind |-> "send", ok |-> r.ok, info |-> r.info]
    /\ gw_calls' = <<>>
    /\ provider_calls' = r.provider
    /\ UNCHANGED <<files, session_state, pc, secrets, environ, TwilioClient,
                   gt_translator, file_writes, failed_dispatches,
                   accepted_sends, entry_log>>

CallSendSms(to_number, body, out) ==
    Called("safe_send_sms", <<to_number, body, out>>, safe_send_sms(to_number, body, out))

CallMakeCall(to_number, body, out) ==
    Called("safe_make_call", <<to_number, body, out>>, safe_make_call(to_number, body, out))

NextGateway ==
    \/ \E out \in ProviderOutcomes : CallSendSms("+254712", "What is SHA?", out)
    \/ \E out \in ProviderOutcomes : CallMakeCall("+254712", "What is SHA?", out)

SpecGateway == InitGateway /\ [][NextGateway]_vars

-----------------------------------------------------------------------------
(* The translation helper alone *)

Texts == {"", "unknown phrase"} \cup CustomKeys
Languages == LANGUAGE_OPTIONS \cup {"French"}
GtOutcomes == {GtRaises, GtReturns("SHA ni nini?")}

InitTranslate ==
    /\ files = [f \in DATA_FILES |-> AbsentFile]
    /\ secrets = NoSecrets
    /\ environ = {}
    /\ TwilioClient = FALSE
    /\ gt_translator \in BOOLEAN
    /\ Sessionless
    /\ op = NoOp
    /\ ret = NoRet
    /\ gw_calls = <<>>
    /\ provider_calls = <<>>
    /\ file_writes = <<>>

Translate(text, lang, ext) ==
    /\ op' = [fn |-> "safe_translate", s |-> 0, arg |-> <<text, lang, ext>>]
    /\ ret' = [kind |-> "text", text |-> safe_translate(text, lang, gt_translator, ext)]
    /\ UNCHANGED <<files, session_state, pc, secrets, environ, TwilioClient,
                   gt_translator, gw_calls, provider_calls, file_writes,
                   failed_dispatches, accepted_sends, entry_log>>

NextTranslate ==
    \E text \in Texts, lang \in Languages, ext \in GtOutcomes : Translate(text, lang, ext)

SpecTranslate == InitTranslate /\ [][NextTranslate]_vars

-----------------------------------------------------------------------------
(* The record store alone: save and load of the outbox table on files      *)
(* that hold anything                                                      *)

\* the cells that vary; the other columns hold one string
StoreRecipients == {Str("+254712"), Str("0712"), Str("clinic")}
StoreAttempts == {Num(0), Str(""), NaN}

StoreRow(recipient, attempts) ==
    DictRow(Dict(OutboxCols, <<recipient, Str("What is SHA?"), Str("English"),
                              Timestamp, Str("sms"), attempts>>))

\* drop column c of a record; add a column the table does not declare
Without(row, c) == [k \in DOMAIN row \ {c} |-> row[k]]
WithExtra(row) == [k \in DOMAIN row \cup {"Extra"} |-> IF k = "Extra" THEN Str("x") ELSE row[k]]

\* rows of an outbox table in memory
StoreRows == {StoreRow(r, a) : r \in StoreRecipients, a \in {Num(0), Num(3)}}

\* records a file may hold
FileRecords ==
    {StoreRow(r, a) : r \in StoreRecipients, a \in StoreAttempts}
      \cup {Without(StoreRow(r, Num(0)), "Attempts") : r \in StoreRecipients}
      \cup {WithExtra(StoreRow(r, Num(0))) : r \in StoreRecipients}

SeqsUpTo(S, n) == UNION {[1..k -> S] : k \in 0..n}

FileChoices ==
    {AbsentFile, GarbageFile}
      \cup {JsonFile(q) : q \in SeqsUpTo(FileRecords, MaxFileRecs)}
      \cup {RawOnlyFile(q) : q \in SeqsUpTo(FileRecords, MaxFileRecs)}

\* the table with rows q, as the application builds it
FrameOf(q) == [columns |-> OutboxCols, index |-> [i \in 1..Len(q) |-> i - 1], rows |-> q]

InitStore ==
    /\ \E f \in FileChoices :
          files = [p \in DATA_FILES |-> IF p = OUTBOX_FILE THEN f ELSE AbsentFile]
    /\ secrets = NoSecrets
    /\ environ = {}
    /\ TwilioClient = FALSE
    /\ gt_translator = FALSE
    /\ Sessionless
    /\ op = NoOp
    /\ ret = NoRet
    /\ gw_calls = <<>>
    /\ provider_calls = <<>>
    /\ file_writes = <<>>

StoreUnchanged ==
    UNCHANGED <<session_state, pc, secrets, environ, TwilioClient, gt_translator,
                gw_calls, provider_calls, failed_dispatches, accepted_sends,
                entry_log>>

\* load_df_from_file(OUTBOX_FILE, columns=OutboxCols); arg[2] is the content the
\* file had, arg[3] the table saved to it by the step before (if it was a save)
Load ==
    /\ op' = [fn |-> "load", s |-> 0,
              arg |-> <<OUTBOX_FILE, files[OUTBOX_FILE],
                        IF op.fn = "save" THEN <<op.arg[2]>> ELSE <<>> >>]
    /\ ret' = [kind |-> "table", df |-> load_df_from_file(files[OUTBOX_FILE], OutboxCols)]
    /\ UNCHANGED <<files, file_writes>>
    /\ StoreUnchanged

\* save_df_to_file(df, OUTBOX_FILE) of a table built in memory
SaveNew(q) ==
    /\ op.fn # "save"
    /\ op' = [fn |-> "save", s |-> 0, arg |-> <<OUTBOX_FILE, FrameOf(q)>>]
    /\ files' = [files EXCEPT ![OUTBOX_FILE] = save_df_to_file(FrameOf(q))]
    /\ file_writes' = <<OUTBOX_FILE>>
    /\ UNCHANGED ret
    /\ StoreUnchanged

\* save_df_to_file(df, OUTBOX_FILE) of the table the last load returned
SaveLoaded ==
    /\ op.fn = "load"
    /\ op' = [fn |-> "save", s |-> 0, arg |-> <<OUTBOX_FILE, ret.df>>]
    /\ files' = [files EXCEPT ![OUTBOX_FILE] = save_df_to_file(ret.df)]
    /\ file_writes' = <<OUTBOX_FILE>>
    /\ UNCHANGED ret
    /\ StoreUnchanged

NextStore ==
    \/ Load
    \/ \E q \in SeqsUpTo(StoreRows, MaxFileRecs) : SaveNew(q)
    \/ SaveLoaded

SpecStore == InitStore /\ [][NextStore]_vars

-----------------------------------------------------------------------------
(* Properties *)

\* this step is the handler fn of session s, from its start to its return
HandlerStep(s, fn) ==
    /\ pc[s] = "idle"
    /\ pc'[s] = "persist"
    /\ op'.fn = fn
    /\ op'.s = s

\* the handler fn of session s has just returned
Returned(s, fn) ==
    /\ pc[s] = "persist"
    /\ op.fn = fn
    /\ op.s = s

\* the attempt count of an outbox row
AttemptsOf(row) == row["Attempts"].n

\* file f holds exactly the records of table df
FileHolds(f, df) ==
    /\ files[f].exists
    /\ files[f].parse = "both"
    /\ files[f].recs = df.rows

\* the results of a drain that report success
OkResults(res) == {j \in 1..Len(res) : res[j].ok}

\* the drain reported success for the entry labelled idx
Succeeded(res, idx) == \E j \in 1..Len(res) : res[j].idx = idx /\ res[j].ok

\* a log row carries the recipient, message, language and type of entry e
RowOf(r, e) ==
    /\ r["Status"] = Str("Sent")
    /\ r["Recipient"] = e["Recipient"]
    /\ r["Message"] = e["Message"]
    /\ r["Language"] = e["Language"]
    /\ r["Type"] = e["Type"]

C1_Drain(s) ==
    LET pre == session_state[s].outbox_df
        post == session_state'[s].outbox_df
        log == session_state[s].message_logs.rows
        logAfter == session_state'[s].message_logs.rows
        res == ret'.results
        sent == SelectIdx(pre.index,
                    {pre.index[i] : i \in {j \in 1..Len(pre.rows) :
                        /\ AttemptsOf(pre.rows[j]) < max_attempts
                        /\ Succeeded(res, pre.index[j])}}, 1)
    IN /\ \A k \in 1..Len(sent) : pre.index[sent[k]] \notin Range(post.index)
       /\ Len(logAfter) = Len(log) + Len(sent)
       /\ \A k \in 1..Len(sent) : RowOf(logAfter[Len(log) + k], pre.rows[sent[k]])

\* C1: a drain removes from the outbox every entry below max_attempts whose
\* dispatch succeeded, and the message log gains exactly one row for each such
\* entry, in order, with status "Sent" and the entry's recipient, message,
\* language and type.
C1_DrainSuccess ==
    [][\A s \in Sessions : HandlerStep(s, "process_outbox") => C1_Drain(s)]_vars

\* a drain of two entries in which the first was sent and the second failed
C1_Witness ==
    \E s \in Sessions :
        /\ Returned(s, "process_outbox")
        /\ Len(ret.results) = 2
        /\ ret.results[1].ok
        /\ ~ret.results[2].ok
        /\ session_state[s].outbox_df.index = <<1>>
        /\ Len(session_state[s].message_logs.rows) = 2

C2_Drain(s) ==
    LET pre == session_state[s].outbox_df
        post == session_state'[s].outbox_df
        log == session_state[s].message_logs.rows
        logAfter == session_state'[s].message_logs.rows
        res == ret'.results
    IN \A i \in 1..Len(pre.rows) :
          AttemptsOf(pre.rows[i]) >= max_attempts =>
             LET idx == pre.index[i]
             IN /\ \A j \in 1..Len(gw_calls') : gw_calls'[j].idx # idx
                /\ \E k \in 1..Len(post.rows) :
                      post.index[k] = idx /\ post.rows[k] = pre.rows[i]
                /\ \E j \in 1..Len(res) :
                      /\ res[j] = [idx |-> idx, ok |-> FALSE, info |-> "max attempts reached"]
                      /\ \A k \in 1..Len(res) : res[k].idx = idx => k = j
                /\ Len(logAfter) = Len(log) + Cardinality(OkResults(res))

\* C2: a drain makes no gateway call for an entry whose attempt count is
\* >= max_attempts, leaves it in the outbox with every field unchanged, adds no
\* log row for it and reports (false, "max attempts reached") for it.
C2_ExhaustedSkipped ==
    [][\A s \in Sessions : HandlerStep(s, "process_outbox") => C2_Drain(s)]_vars

\* a drain that skipped an exhausted entry and dispatched another one
C2_Witness ==
    \E s \in Sessions :
        /\ Returned(s, "process_outbox")
        /\ Len(ret.results) = 2
        /\ ret.results[1].info = "max attempts reached"
        /\ Len(gw_calls) = 1
        /\ AttemptsOf(session_state[s].outbox_df.rows[1]) = max_attempts

\* every outbox row has as many attempts as dispatches of it have failed
C3_Count ==
    \A s \in Sessions :
        LET ob == session_state[s].outbox_df
        IN \A i \in 1..Len(ob.rows) :
              /\ ob.rows[i]["Attempts"] = Num(failed_dispatches[s][i])
              /\ failed_dispatches[s][i] <= max_attempts

C3_Step(s) ==
    LET pre == session_state[s].outbox_df
        post == session_state'[s].outbox_df
        res == ret'.results
    IN /\ (HandlerStep(s, "send_now") /\ ret'.kind = "send" /\ ~ret'.ok) =>
             /\ Len(post.rows) = Len(pre.rows) + 1
             /\ \A i \in 1..Len(pre.rows) : post.rows[i] = pre.rows[i]
             /\ post.rows[Len(post.rows)]["Attempts"] = Num(0)
       /\ HandlerStep(s, "process_outbox") =>
             \A i \in 1..Len(pre.rows) :
                (/\ AttemptsOf(pre.rows[i]) < max_attempts
                 /\ ~Succeeded(res, pre.index[i])) =>
                   \E k \in 1..Len(post.rows) :
                      /\ post.index[k] = pre.index[i]
                      /\ post.rows[k] = [pre.rows[i] EXCEPT
                             !["Attempts"] = Num(AttemptsOf(pre.rows[i]) + 1)]

\* C3: an enqueued entry starts with attempt count 0; an entry whose dispatch
\* has failed in N drains is still in the outbox with attempt count N: a failed
\* drain adds exactly 1 and changes no other field of the entry.
C3_FailedAttemptsCounted ==
    /\ []C3_Count
    /\ [][\A s \in Sessions : C3_Step(s)]_vars

\* an entry that two drains failed to dispatch
C3_Witness ==
    \E s \in Sessions :
        /\ Returned(s, "process_outbox")
        /\ \E i \in 1..Len(session_state[s].outbox_df.rows) :
              /\ AttemptsOf(session_state[s].outbox_df.rows[i]) = 2
              /\ failed_dispatches[s][i] = 2
              /\ \E j \in 1..Len(gw_calls) :
                    gw_calls[j].idx = session_state[s].outbox_df.index[i]


\* the number of successful gateway sends of a step of session s
SendsOk(s) ==
    IF HandlerStep(s, "send_now") /\ ret'.kind = "send" /\ ret'.ok THEN 1
    ELSE IF HandlerStep(s, "process_outbox") THEN Cardinality(OkResults(ret'.results))
    ELSE 0

C6_Step(s) ==
    LET log == session_state[s].message_logs.rows
        logAfter == session_state'[s].message_logs.rows
    IN /\ Len(logAfter) = Len(log) + SendsOk(s)
       /\ \A i \in 1..Len(log) : logAfter[i] = log[i]
       /\ \A i \in (Len(log) + 1)..Len(logAfter) : logAfter[i]["Status"] = Str("Sent")

\* C6: the message log is append-only: no step removes, reorders or modifies a
\* row; a step appends one row per gateway send that returned success (Send Now
\* or drain), and every appended row has status "Sent".
C6_LogAppendOnly ==
    [][\A s \in Sessions : C6_Step(s)]_vars

\* a drain that appended a row to a log that already held one
C6_Witness ==
    \E s \in Sessions :
        /\ Returned(s, "process_outbox")
        /\ Cardinality(OkResults(ret.results)) = 1
        /\ Len(session_state[s].message_logs.rows) = 2

C7_Step(s) ==
    LET rem == session_state[s].reminders_df.rows
        remAfter == session_state'[s].reminders_df.rows
    IN /\ Len(remAfter) >= Len(rem)
       /\ \A i \in 1..Len(rem) :
             remAfter[i]["Status"] # rem[i]["Status"] =>
                /\ HandlerStep(s, "mark_completed")
                /\ rem[i]["Status"] = Str("Pending")
                /\ remAfter[i]["Status"] = Str("Completed")
       /\ \A i \in (Len(rem) + 1)..Len(remAfter) :
             /\ HandlerStep(s, "add_reminder")
             /\ remAfter[i]["Status"] = Str("Pending")

C8_FilesTrackTables ==
    \A s \in Sessions :
        LET st == session_state[s]
        IN /\ (Returned(s, "send_now") /\ ret.kind = "send" /\ ~ret.ok) =>
                 /\ FileHolds(OUTBOX_FILE, st.outbox_df)
                 /\ file_writes = <<OUTBOX_FILE>>
           /\ (Returned(s, "process_outbox") /\ ret.kind = "results") =>
                 /\ FileHolds(OUTBOX_FILE, st.outbox_df)
                 /\ FileHolds(MESSAGES_FILE, st.message_logs)
                 /\ ret.results # <<>> => file_writes = <<OUTBOX_FILE, MESSAGES_FILE>>
           /\ (pc[s] = "idle" /\ op.fn = "persist_all" /\ op.s = s) =>
                 /\ FileHolds(PARTNERS_FILE, st.partners_df)
                 /\ FileHolds(MESSAGES_FILE, st.message_logs)
                 /\ FileHolds(FEEDBACK_FILE, st.feedback_df)
                 /\ FileHolds(REMINDERS_FILE, st.reminders_df)
                 /\ FileHolds(OUTBOX_FILE, st.outbox_df)

\* Send Now has failed and queued a second entry
C8_Witness ==
    \E s \in Sessions :
        /\ Returned(s, "send_now")
        /\ ret.kind = "send"
        /\ ~ret.ok
        /\ Len(session_state[s].outbox_df.rows) = 2
        /\ Len(files[OUTBOX_FILE].recs) = 2

-----------------------------------------------------------------------------
(* Properties of the record store, the gateway and the translation helper *)

\* C4: load returns a table whose columns are exactly the expected columns, in
\* order, whatever the file holds.
C4_LoadColumns ==
    op.fn = "load" => (ret.kind = "table" /\ ret.df.columns = OutboxCols)

\* C9: a load that follows a save returns the records of the table saved, in
\* order and with the same value in every column (and so does a further
\* save and load of what was loaded).
C9_RoundTrip ==
    (op.fn = "load" /\ op.arg[3] # <<>>) => ret.df.rows = op.arg[3][1].rows

\* C5: a gateway function returns (false, not configured) without a provider
\* call exactly when configured() is false; when configured() is true it calls
\* the provider once and returns (false, error) if that throws, (true, id) if not.
\* Stated for the deployments in which the twilio library is installed.
C5_GatewayContract ==
    (TwilioClient /\ op.fn \in {"safe_send_sms", "safe_make_call"}) =>
        /\ (ret.ok = FALSE /\ ret.info = NOT_CONFIGURED /\ provider_calls = <<>>)
              <=> ~twilio_configured
        /\ twilio_configured =>
              /\ Len(provider_calls) = 1
              /\ op.arg[3] = "raise" => (ret.ok = FALSE /\ ret.info = "provider error")
              /\ op.arg[3] = "ok" => (ret.ok = TRUE /\ ret.info = "SID")

\* C10: translate returns the text unchanged for English, for a language
\* outside the four, for Luo or Luhya when the text is no key of the phrase
\* table, and for Swahili when the translator is absent or throws; for Luo or
\* Luhya with a key of the table it returns the table's string.
C10_TranslateDegrades ==
    op.fn = "safe_translate" =>
        LET text == op.arg[1]
            lang == op.arg[2]
            ext == op.arg[3]
        IN /\ ret.kind = "text"
           /\ lang = "English" => ret.text = text
           /\ lang \notin LANGUAGE_OPTIONS => ret.text = text
           /\ (lang \in {"Luo", "Luhya"} /\ text \notin CustomKeys) => ret.text = text
           /\ (lang = "Swahili" /\ (~gt_translator \/ ext.raises)) => ret.text = text
           /\ (lang \in {"Luo", "Luhya"} /\ text \in CustomKeys) =>
                 ret.text = custom_translations(lang, text)
           /\ (lang = "Luo" /\ text = "What is SHA?") =>
                 ret.text = "SHA en Social Health Authority, ma orit gi dhok yi mondo giko gi bedo mag dhok."
           /\ (lang = "Luhya" /\ text = "Thank you for your feedback!") =>
                 ret.text = "Webale muno okhu"

\* the Luo entry of "What is SHA?" has been returned
C10_Witness ==
    /\ op.fn = "safe_translate"
    /\ op.arg[1] = "What is SHA?"
    /\ op.arg[2] = "Luo"
    /\ ret.text = "SHA en Social Health Authority, ma orit gi dhok yi mondo giko gi bedo mag dhok."

-----------------------------------------------------------------------------
(* Properties of the outbox over sequences of enqueues and drains *)

\* the row of the outbox after a step that outbox row i before it has become:
\* a drain keeps the labels of the rows it leaves, any other step the positions
KeptAt(s, i) ==
    IF HandlerStep(s, "process_outbox")
    THEN Pos(session_state'[s].outbox_df, session_state[s].outbox_df.index[i])
    ELSE i

\* the gateway dispatches a step makes for the entry labelled idx
DispatchesFor(calls, idx) == {j \in 1..Len(calls) : calls[j].idx = idx}

C11_Step(s) ==
    LET pre == session_state[s].outbox_df
        post == session_state'[s].outbox_df
        res == ret'.results
        drain == HandlerStep(s, "process_outbox")
    IN \A i \in 1..Len(pre.rows) :
          LET idx == pre.index[i]
              a == AttemptsOf(pre.rows[i])
              k == KeptAt(s, i)
              sent == drain /\ Succeeded(res, idx)
              n == IF drain THEN Cardinality(DispatchesFor(gw_calls', idx)) ELSE 0
          IN /\ a \in 0..max_attempts
             /\ n <= 1
             /\ failed_dispatches[s][i] + n <= max_attempts
             /\ ~sent => /\ k \in 1..Len(post.rows)
                         /\ AttemptsOf(post.rows[k]) >= a
                         /\ AttemptsOf(post.rows[k]) <= max_attempts
             /\ sent => (a < max_attempts /\ n = 1)
             /\ a = max_attempts =>
                   /\ ~sent
                   /\ n = 0
                   /\ post.rows[k] = pre.rows[i]
                   /\ Len(session_state'[s].message_logs.rows)
                         = Len(session_state[s].message_logs.rows) + SendsOk(s)

\* C11: in every step the attempt count of each outbox entry is in
\* 0..max_attempts and does not decrease; a drain dispatches an entry at most
\* once and never an entry that max_attempts dispatches have failed for; an
\* entry whose attempt count is max_attempts stays in the outbox unchanged, is
\* not dispatched and is not among the entries a log row is produced for.
C11_AttemptsBounded ==
    [][\A s \in Sessions : C11_Step(s)]_vars

\* a drain has just dispatched an entry for the third time, and failed
C11_Witness ==
    \E s \in Sessions :
        /\ Returned(s, "process_outbox")
        /\ \E i \in 1..Len(session_state[s].outbox_df.rows) :
              /\ AttemptsOf(session_state[s].outbox_df.rows[i]) = max_attempts
              /\ failed_dispatches[s][i] = max_attempts
              /\ DispatchesFor(gw_calls, session_state[s].outbox_df.index[i]) # {}

\* the rows of table df
Count(df) == Len(df.rows)

\* every Send Now that passed the input check is a row of the log or of the outbox
C12_Conserved ==
    \A s \in Sessions :
        accepted_sends[s] = Count(session_state[s].message_logs)
                              + Count(session_state[s].outbox_df)

C12_Step(s) ==
    LET pre == session_state[s].outbox_df
        post == session_state'[s].outbox_df
        log == session_state[s].message_logs
        logAfter == session_state'[s].message_logs
        res == ret'.results
    IN /\ (HandlerStep(s, "send_now") /\ op'.arg[1] # "" /\ op'.arg[2] # "") =>
             /\ ret'.kind = "send"
             /\ accepted_sends'[s] = accepted_sends[s] + 1
             /\ ret'.ok => Len(provider_calls') = 1
             /\ ~twilio_configured => ~ret'.ok
             /\ ret'.ok =>
                   /\ Count(logAfter) = Count(log) + 1
                   /\ post = pre
             /\ ~ret'.ok =>
                   /\ Count(post) = Count(pre) + 1
                   /\ post.rows[Count(post)]["Attempts"] = Num(0)
                   /\ logAfter = log
       /\ (HandlerStep(s, "send_now") /\ (op'.arg[1] = "" \/ op'.arg[2] = "")) =>
             /\ accepted_sends'[s] = accepted_sends[s]
             /\ post = pre
             /\ logAfter = log
       /\ HandlerStep(s, "process_outbox") =>
             /\ Count(logAfter) + Count(post) = Count(log) + Count(pre)
             /\ \A i \in 1..Count(pre) :
                   Succeeded(res, pre.index[i]) <=> Pos(post, pre.index[i]) = 0
             /\ \A k \in 1..Count(post) : Pos(pre, post.index[k]) # 0
             /\ \A j, k \in 1..Count(post) : post.index[j] = post.index[k] => j = k

\* C12: a Send Now with a recipient and a message adds either one log row (the
\* send succeeded) or one outbox entry with attempt count 0 (it did not), never
\* both and never neither; a drain moves an entry to the log or leaves it in the
\* outbox; so the accepted sends of a session are as many as its log rows and
\* its outbox entries together.
C12_MessageConservation ==
    /\ []C12_Conserved
    /\ [][\A s \in Sessions : C12_Step(s)]_vars

\* three accepted sends: a drain has moved one of two entries to the log
C12_Witness ==
    \E s \in Sessions :
        /\ Returned(s, "process_outbox")
        /\ accepted_sends[s] = 3
        /\ Cardinality(OkResults(ret.results)) = 1
        /\ Count(session_state[s].message_logs) = 2
        /\ Count(session_state[s].outbox_df) = 1

-----------------------------------------------------------------------------
(* Properties of the outbox under repeated drains *)

\* the accepted sends an outbox can hold entries of
EntryIds == 1..(MaxLog + MaxOutbox)

\* the entry queued by accepted send id is in the outbox of s, not exhausted
Pending(s, id) ==
    \E i \in 1..Count(session_state[s].outbox_df) :
        /\ entry_log[s][i].id = id
        /\ AttemptsOf(session_state[s].outbox_df.rows[i]) < max_attempts

C13_Drain(s) ==
    LET pre == session_state[s].outbox_df
        post == session_state'[s].outbox_df
        res == ret'.results
        dispatched == {j \in 1..Len(res) : res[j].info # "max attempts reached"}
    IN /\ Len(res) = Count(pre)
       /\ \A i \in 1..Count(pre) :
             LET idx == pre.index[i]
                 a == AttemptsOf(pre.rows[i])
                 n == Cardinality(DispatchesFor(gw_calls', idx))
             IN /\ res[i].idx = idx
                /\ n = (IF a < max_attempts THEN 1 ELSE 0)
                /\ n = 1 => entry_log[s][i].drains < max_attempts
                /\ a < max_attempts =>
                      \/ /\ res[i].ok
                         /\ Pos(post, idx) = 0
                      \/ /\ ~res[i].ok
                         /\ Pos(post, idx) # 0
                         /\ AttemptsOf(post.rows[Pos(post, idx)]) = a + 1
       /\ (\A j \in dispatched : res[j].ok) =>
             /\ \A k \in 1..Count(post) :
                   /\ AttemptsOf(post.rows[k]) = max_attempts
                   /\ post.rows[k] = pre.rows[Pos(pre, post.index[k])]
             /\ Count(session_state'[s].message_logs)
                   = Count(session_state[s].message_logs) + Cardinality(dispatched)

\* an entry that max_attempts drains have passed over is exhausted
C13_Exhausted ==
    \A s \in Sessions :
        \A i \in 1..Count(session_state[s].outbox_df) :
            entry_log[s][i].drains >= max_attempts =>
                AttemptsOf(session_state[s].outbox_df.rows[i]) = max_attempts

\* C13: a drain is one pass over the entries present at its start: one result
\* per entry, in order, and one dispatch of each entry that is not exhausted,
\* which removes the entry or adds 1 to its attempt count; no entry is
\* dispatched after max_attempts drains; a drain whose dispatches all succeed
\* leaves only the entries that were exhausted before it; and under repeated
\* drains every entry that is queued and not exhausted is eventually removed
\* or exhausted.
C13_DrainsTerminate ==
    /\ []C13_Exhausted
    /\ [][\A s \in Sessions : HandlerStep(s, "process_outbox") => C13_Drain(s)]_vars
    /\ \A s \in DrainSessions : \A id \in EntryIds : Pending(s, id) ~> ~Pending(s, id)

\* a drain has skipped an exhausted entry and delivered the other one
C13_Witness ==
    \E s \in Sessions :
        /\ Returned(s, "process_outbox")
        /\ Len(ret.results) = 2
        /\ ret.results[1].info = "max attempts reached"
        /\ ret.results[2].ok
        /\ Count(session_state[s].outbox_df) = 1
        /\ entry_log[s][1].drains = max_attempts + 1

-----------------------------------------------------------------------------
(* Properties of the outbox of a deployment without gateway credentials *)

C14_Drain(s) ==
    LET pre == session_state[s].outbox_df
        post == session_state'[s].outbox_df
        res == ret'.results
    IN /\ provider_calls' = <<>>
       /\ Count(post) = Count(pre)
       /\ session_state'[s].message_logs = session_state[s].message_logs
       /\ \A i \in 1..Count(pre) :
             LET idx == pre.index[i]
                 a == AttemptsOf(pre.rows[i])
             IN a < max_attempts =>
                   /\ Cardinality(DispatchesFor(gw_calls', idx)) = 1
                   /\ post.index[i] = idx
                   /\ post.rows[i] = [pre.rows[i] EXCEPT !["Attempts"] = Num(a + 1)]
                   /\ res[i] = [idx |-> idx, ok |-> FALSE, info |-> NOT_CONFIGURED]

\* without credentials no handler calls the provider, and an entry has as many
\* attempts as drains have passed over it, up to max_attempts
C14_NoProviderCall ==
    ~twilio_configured =>
        /\ provider_calls = <<>>
        /\ \A s \in Sessions :
              \A i \in 1..Count(session_state[s].outbox_df) :
                 LET a == AttemptsOf(session_state[s].outbox_df.rows[i])
                     d == entry_log[s][i].drains
                 IN a = (IF d < max_attempts THEN d ELSE max_attempts)

\* C14: while twilio_configured() is false a drain calls the provider for no
\* entry, adds exactly 1 to the attempt count of every entry that is not
\* exhausted and reports (false, "Twilio not configured or library missing.")
\* for it; so an entry is exhausted after max_attempts drains, and no provider
\* call is ever made.
C14_UnconfiguredDrain ==
    /\ []C14_NoProviderCall
    /\ [][\A s \in Sessions :
            (~twilio_configured /\ HandlerStep(s, "process_outbox")) => C14_Drain(s)]_vars

\* without credentials, the third drain has exhausted an entry
C14_Witness ==
    \E s \in Sessions :
        /\ ~twilio_configured
        /\ Returned(s, "process_outbox")
        /\ \E i \in 1..Count(session_state[s].outbox_df) :
              /\ AttemptsOf(session_state[s].outbox_df.rows[i]) = max_attempts
              /\ entry_log[s][i].drains = max_attempts
              /\ ret.results[i].info = NOT_CONFIGURED

-----------------------------------------------------------------------------
(* Properties of the files shared by the sessions of a process *)

\* what identifies a record of a file: every column but the attempt count,
\* a numeral string and its number taken as the same value (a load turns the
\* one into the other)
RecordKey(r) ==
    [c \in (DOMAIN r) \ {"Attempts"} |->
        IF Convertible(r[c]) THEN ToNumber(r[c]) ELSE r[c]]

\* how many records of recs have key k
Occurs(recs, k) == Cardinality({i \in 1..Len(recs) : RecordKey(recs[i]) = k})

\* the entries with key k that this step's drain (if it is one) has delivered
Delivered(k) ==
    IF op'.fn = "process_outbox" /\ pc[op'.s] = "idle"
    THEN LET pre == session_state[op'.s].outbox_df
         IN Cardinality({i \in 1..Count(pre) :
                /\ RecordKey(pre.rows[i]) = k
                /\ Succeeded(ret'.results, pre.index[i])})
    ELSE 0

C15_Step ==
    /\ \A i \in 1..Len(files[MESSAGES_FILE].recs) :
          LET k == RecordKey(files[MESSAGES_FILE].recs[i])
          IN Occurs(files'[MESSAGES_FILE].recs, k) >= Occurs(files[MESSAGES_FILE].recs, k)
    /\ \A i \in 1..Len(files[OUTBOX_FILE].recs) :
          LET k == RecordKey(files[OUTBOX_FILE].recs[i])
          IN Occurs(files'[OUTBOX_FILE].recs, k)
                >= Occurs(files[OUTBOX_FILE].recs, k) - Delivered(k)

\* C15: with two sessions whose cycles interleave, no step of any session
\* loses a record that is in a file: every message-log record of
\* message_logs.json is still in it after the step, and every entry of
\* outbox.json is still in it after the step unless the step is a drain that
\* delivered it.
C15_NoLostUpdate ==
    [][C15_Step]_vars

====
